---- MODULE Spec2Model ----
(***************************************************************************)
(* The naive finite-difference solver of the 2D Laplace problem with       *)
(* Dirichlet boundary conditions (TD8, part 1): matrix_builder assembles   *)
(* the linear system A X = B of the 5-point stencil on an N x N grid over  *)
(* [-L/2, L/2]^2, matrix_solver solves it with an LU factorisation with    *)
(* partial pivoting, plot_solution reshapes X into an N x N field, and     *)
(* naive_solver chains the three.                                          *)
(* Spec is naive_solver, FairSpec the same with the steps after the solve *)
(* taken; DirectSpec calls matrix_solver and plot_solution on their own;   *)
(* BuilderSpec calls matrix_builder repeatedly; OrderSpec runs the loop    *)
(* body of matrix_builder in any order; ResolveSpec solves the assembled   *)
(* system again for changed boundary data; SparseSpec runs the sparse      *)
(* strategy of part 2 after the dense one.                                 *)
(*                                                                         *)
(* Real numbers are exact rationals <<num, den>> (den > 0, lowest terms);  *)
(* the floating-point rounding of numpy is not modelled.                   *)
(***************************************************************************)
EXTENDS Integers, Sequences, FiniteSets, TLC

\* Largest grid size N a call is made with. Up to N = 5 every value of g
\* on the grid is rational and the elimination stays within TLC's integers.
MaxN == 4

\* Largest domain size L a call is made with (calls use L in -1..MaxL).
MaxL == 2

GridSizes == 1..MaxN

DomainSizes == (-1)..MaxL

\* Largest entry of a matrix or vector handed directly to matrix_solver or
\* plot_solution (entries are 0..MaxEntry).
MaxEntry == 2

\* Longest vector handed directly to plot_solution.
MaxVec == 5

\* The orders of the matrices handed directly to matrix_solver.
SolverOrders == {1, 2}

\* The grid sizes plot_solution is directly called with.
CodecSizes == {1, 2}

\* The boundary functions a caller may want: "g", the cosine defined inside
\* matrix_builder, or "one", the constant 1.
BoundaryFns == {"g", "one"}

NoMatrix == <<>>

----------------------------------------------------------------------------
(* Exact rational arithmetic. *)

Abs(a) == IF a < 0 THEN -a ELSE a

RECURSIVE Gcd(_, _)
Gcd(a, b) == IF b = 0 THEN a ELSE Gcd(b, a % b)

Rat(a, b) ==
    LET s == IF b < 0 THEN -1 ELSE 1
        d == Gcd(Abs(a), Abs(b))
    IN  <<(s * a) \div d, (s * b) \div d>>

FromInt(a) == <<a, 1>>

Zero == FromInt(0)

RAdd(p, q) ==
    LET d == Gcd(p[2], q[2])
    IN  Rat(p[1] * (q[2] \div d) + q[1] * (p[2] \div d), (p[2] \div d) * q[2])

RNeg(p) == <<-p[1], p[2]>>

RSub(p, q) == RAdd(p, RNeg(q))

RMul(p, q) ==
    LET d1 == Gcd(Abs(p[1]), q[2])
        d2 == Gcd(Abs(q[1]), p[2])
    IN  IF p[1] = 0 \/ q[1] = 0 THEN Zero
        ELSE Rat((p[1] \div d1) * (q[1] \div d2), (p[2] \div d2) * (q[2] \div d1))

RDiv(p, q) == RMul(p, Rat(q[2], q[1]))

\* A value that is not a finite number: inf, -inf or nan.
NonFinite == <<"nonfinite">>

RAbs(p) == <<Abs(p[1]), p[2]>>

RLess(p, q) == p[1] * q[2] < q[1] * p[2]

----------------------------------------------------------------------------
(* The grid. *)

\* A faulty variant of linspace: the step taken as (stop - start)/num and no
\* sample pinned to stop, the "h = L/N" slip the source warns against.
linspace_step_over_num(start, stop, num, idx) ==
    RAdd(start, RMul(FromInt(idx), RDiv(RSub(stop, start), FromInt(num))))

\* np.linspace(start, stop, num)[idx] with endpoint=True: start + idx*step,
\* step = (stop - start)/(num - 1), the last sample set to stop itself; a
\* single sample is start.
linspace(start, stop, num, idx) ==
    IF num > 1 /\ idx = num - 1 THEN stop
    ELSE IF num > 1
         THEN RAdd(start, RMul(FromInt(idx), RDiv(RSub(stop, start), FromInt(num - 1))))
         ELSE start

\* A faulty variant of x_grid: np.meshgrid with its default indexing='xy',
\* under which x_grid[i, j] = x[j].
x_grid_xy(n, l, ii, jj) == linspace(Rat(-l, 2), Rat(l, 2), n, jj)

\* x = np.linspace(-L/2, L/2, N); x_grid[i, j] = x[i] under indexing='ij'.
x_grid(n, l, ii, jj) == linspace(Rat(-l, 2), Rat(l, 2), n, ii)

\* y = np.linspace(-L/2, L/2, N); y_grid[i, j] = y[j] under indexing='ij'.
y_grid(n, l, ii, jj) == linspace(Rat(-l, 2), Rat(l, 2), n, jj)

\* cos(2*pi*t) for a rational number of turns t: t is reduced modulo 1 and
\* folded into [0, 1/2], where the cosine is one-to-one. The rational values
\* of the cosine at rational turns are 1, 1/2, 0, -1/2, -1 (Niven); any other
\* value is kept as the exact symbol <<"cos", p, q>> of the folded turn p/q.
CosTurns(t) ==
    LET m == t[1] % t[2]
        f == IF 2 * m > t[2] THEN t[2] - m ELSE m
        r == Rat(f, t[2])
    IN  CASE r = <<0, 1>> -> <<1, 1>>
          [] r = <<1, 6>> -> <<1, 2>>
          [] r = <<1, 4>> -> <<0, 1>>
          [] r = <<1, 3>> -> <<-1, 2>>
          [] r = <<1, 2>> -> <<-1, 1>>
          [] OTHER -> <<"cos", r[1], r[2]>>

\* A faulty variant of g: the boundary function of TD4, cos(2*pi*(x + y)/L),
\* left in place of the one of this notebook.
g_of_td4(l, x, y) == CosTurns(RDiv(RAdd(x, y), FromInt(l)))

\* g(x, y) = np.cos(2*np.pi/L * (2*x + y)), the boundary function defined
\* inside matrix_builder; L is the enclosing call's L, which is not 0 here.
g(l, x, y) == CosTurns(RDiv(RAdd(RMul(FromInt(2), x), y), FromInt(l)))

\* The value at (x, y) of the boundary function fn a caller wants.
BoundaryValue(fn, l, x, y) == IF fn = "one" THEN FromInt(1) ELSE g(l, x, y)

\* A faulty variant of Inside: the test on y left out, so that the points
\* of the first and last grid column count as interior.
Inside_x_only(n, l, ii, jj) ==
    RLess(RAbs(x_grid(n, l, ii, jj)), Rat(l, 2))

\* A faulty variant of Inside: the test made with <=, which takes the frame
\* points for interior ones.
Inside_nonstrict(n, l, ii, jj) ==
    /\ ~RLess(Rat(l, 2), RAbs(x_grid(n, l, ii, jj)))
    /\ ~RLess(Rat(l, 2), RAbs(y_grid(n, l, ii, jj)))

\* A faulty variant of Inside: the bound taken in absolute value too,
\* np.abs(x) < np.abs(L/2), which accepts interior points when L < 0.
Inside_abs_bound(n, l, ii, jj) ==
    /\ RLess(RAbs(x_grid(n, l, ii, jj)), RAbs(Rat(l, 2)))
    /\ RLess(RAbs(y_grid(n, l, ii, jj)), RAbs(Rat(l, 2)))

\* The test of the loop body: np.abs(x_grid[i, j]) < L/2 and
\* np.abs(y_grid[i, j]) < L/2 ("we are inside Omega").
Inside(n, l, ii, jj) ==
    /\ RLess(RAbs(x_grid(n, l, ii, jj)), Rat(l, 2))
    /\ RLess(RAbs(y_grid(n, l, ii, jj)), Rat(l, 2))

----------------------------------------------------------------------------
(* The state of one kernel: the arguments and locals of the running call. *)

VARIABLES
    pc,      \* where the call stands: "idle", "matrix_builder", "matrix_solver",
             \* "getrf_pivot", "getrf_eliminate", "getrs_permute",
             \* "getrs_forward", "getrs_back", "plot", "return", "done", "raised"
    N,       \* argument N of naive_solver
    L,       \* argument L of naive_solver
    plot,    \* argument plot of naive_solver
    boundary_fn, \* the boundary function the caller wants the problem solved
             \* for; naive_solver and matrix_builder have no parameter for it
    i,       \* outer loop index of matrix_builder
    j,       \* inner loop index of matrix_builder
    A,       \* the matrix under construction, A[row][column]
    B,       \* the right-hand side under construction
    lu,      \* lu_factor's working copy of A, then the factors L and U
    piv,     \* lu_factor's row interchanges: row k was swapped with piv[k]
    rhs,     \* lu_solve's working copy of B
    k,       \* the column or row lu_factor / lu_solve is working on
    X,       \* the solution returned by matrix_solver
    z_grid,  \* the N x N field of plot_solution
    result,  \* what naive_solver handed back to its caller
    exc,     \* the exception that ended the call, "" when none
    A_sp,    \* the sparse encoding of the matrix: row -> (column -> value),
             \* the stored columns only
    B_sp,    \* the right-hand side assembled with the sparse encoding
    X_sp,    \* the solution of the sparse strategy
    earlier, \* the A, B an earlier call of matrix_builder returned and its
             \* caller still holds, with the N, L of that call (and the X
             \* solved from them, if any)
    todo     \* the grid points whose loop body is still to be run, when the
             \* loop body is run in another order than the nested loops'

vars == <<pc, N, L, plot, boundary_fn, i, j, A, B, lu, piv, rhs, k, X, z_grid, result, exc,
          A_sp, B_sp, X_sp, earlier, todo>>

\* A faulty variant of ZerosMatrix: np.zeros((N*N, N)), one column per grid
\* line instead of one per grid point.
ZerosMatrix_grid_lines(n) == [r \in 0..(n * n - 1) |-> [c \in 0..(n - 1) |-> 0]]

\* np.zeros((N*N, N*N))
ZerosMatrix(n) == [r \in 0..(n * n - 1) |-> [c \in 0..(n * n - 1) |-> 0]]

\* np.zeros(N*N)
ZerosVector(n) == [r \in 0..(n * n - 1) |-> Zero]

\* A faulty variant of Flat: the stride taken as N - 1, the number of grid
\* steps, instead of N, the number of grid points.
Flat_stride_steps(n, ii, jj) == ii * (n - 1) + jj

\* The flat index of grid point (i, j): the i*N + j of the loop body.
Flat(n, ii, jj) == ii * n + jj

\* numpy's index rule on an axis of length len: -len..-1 count from the end.
PyIndex(idx, len) == IF idx < 0 THEN idx + len ELSE idx

IndexOk(idx, len) == -len <= idx /\ idx < len

\* The length of an axis of an array.
Size(M) == Cardinality(DOMAIN M)

\* The sum of f over the index set S.
RECURSIVE SumOver(_, _)
SumOver(f, S) ==
    IF S = {} THEN 0
    ELSE LET e == CHOOSE e \in S : TRUE IN f[e] + SumOver(f, S \ {e})

\* A[r, c] = v
Store(M, r, c, v) ==
    [M EXCEPT ![PyIndex(r, Size(M))][PyIndex(c, Size(M))] = v]

\* A faulty variant of StencilColumns: the neighbour of the grid row above
\* taken on the diagonal, (i-1, j-1) instead of (i-1, j).
StencilColumns_diagonal_neighbour(n, ii, jj) ==
    << Flat(n, ii, jj), Flat(n, ii - 1, jj - 1), Flat(n, ii + 1, jj),
       Flat(n, ii, jj) + 1, Flat(n, ii, jj) - 1 >>

\* A faulty variant of StencilColumns: the last line of the branch repeats
\* column k + 1 instead of writing column k - 1.
StencilColumns_repeat_right(n, ii, jj) ==
    << Flat(n, ii, jj), Flat(n, ii - 1, jj), Flat(n, ii + 1, jj),
       Flat(n, ii, jj) + 1, Flat(n, ii, jj) + 1 >>

\* A faulty variant of StencilColumns: the row above is taken one column
\* back, k - 1, instead of one grid row back, k - N.
StencilColumns_row_above_lost(n, ii, jj) ==
    << Flat(n, ii, jj), Flat(n, ii, jj) - 1, Flat(n, ii + 1, jj),
       Flat(n, ii, jj) + 1, Flat(n, ii, jj) - 1 >>

\* The columns the interior branch writes, in the order of the source.
StencilColumns(n, ii, jj) ==
    << Flat(n, ii, jj), Flat(n, ii - 1, jj), Flat(n, ii + 1, jj),
       Flat(n, ii, jj) + 1, Flat(n, ii, jj) - 1 >>

\* A faulty variant of StencilValues: the centre weight -3, one neighbour
\* short of the four that are written.
StencilValues_centre_three == << -3, 1, 1, 1, 1 >>

\* A faulty variant of StencilValues: the centre weight with the sign lost.
StencilValues_centre_sign == << 4, 1, 1, 1, 1 >>

\* The values the interior branch writes to those columns.
StencilValues == << -4, 1, 1, 1, 1 >>

\* The value the boundary branch writes on the diagonal.
BoundaryDiagonal == 1

RECURSIVE StoreAll(_, _, _, _, _)
StoreAll(M, r, cols, vals, t) ==
    IF t > Len(cols) THEN M
    ELSE StoreAll(Store(M, r, cols[t], vals[t]), r, cols, vals, t + 1)

\* The interior branch of the loop body: five writes to row i*N + j.
InteriorRow(M, n, ii, jj) ==
    StoreAll(M, Flat(n, ii, jj), StencilColumns(n, ii, jj), StencilValues, 1)

\* A faulty variant of BoundaryRow: the boundary branch sets B[k] only and
\* leaves row k of A at zero.
BoundaryRow_skipped(M, n, ii, jj) == M

\* A faulty variant of BoundaryRow: the boundary unknown taken out of the
\* other equations as well, A[:, k] = 0 before A[k, k] = 1.
BoundaryRow_clear_column(M, n, ii, jj) ==
    [r \in DOMAIN M |->
        [c \in DOMAIN M[r] |->
            IF c = Flat(n, ii, jj)
            THEN IF r = Flat(n, ii, jj) THEN BoundaryDiagonal ELSE 0
            ELSE M[r][c]]]

\* A faulty variant of BoundaryRow: the diagonal write copied from the
\* interior branch, -4 instead of 1.
BoundaryRow_stencil_centre(M, n, ii, jj) ==
    Store(M, Flat(n, ii, jj), Flat(n, ii, jj), StencilValues[1])

\* The boundary branch of the loop body: one write to row i*N + j.
BoundaryRow(M, n, ii, jj) ==
    Store(M, Flat(n, ii, jj), Flat(n, ii, jj), BoundaryDiagonal)

\* A faulty variant of BoundaryRhs: the row index transposed, j*N + i.
BoundaryRhs_transposed(b, n, l, ii, jj) ==
    [b EXCEPT ![Flat(n, jj, ii)] = g(l, x_grid(n, l, ii, jj), y_grid(n, l, ii, jj))]

\* B[i*N + j] = g(x_grid[i, j], y_grid[i, j])
BoundaryRhs(b, n, l, ii, jj) ==
    [b EXCEPT ![Flat(n, ii, jj)] = g(l, x_grid(n, l, ii, jj), y_grid(n, l, ii, jj))]

\* The caller holds no earlier result.
NothingKept ==
    [kept |-> FALSE, N |-> 0, L |-> 0, A |-> NoMatrix, B |-> NoMatrix, X |-> NoMatrix]

TypeOK ==
    /\ pc \in {"idle", "matrix_builder", "matrix_solver", "getrf_pivot",
               "getrf_eliminate", "getrs_permute", "getrs_forward", "getrs_back",
               "plot", "return", "done", "raised", "sparse_matrix_builder",
               "sparse_eliminate", "sparse_back", "sparse_done", "any_order",
               "any_order_done"}
    /\ N \in 0..MaxN
    /\ L \in DomainSizes
    /\ plot \in BOOLEAN
    /\ boundary_fn \in BoundaryFns
    /\ todo \subseteq (0..(MaxN - 1)) \X (0..(MaxN - 1))
    /\ exc \in {"", "ZeroDivisionError", "IndexError", "ValueError", "InvalidGridError",
                "InvalidDomainError", "SingularSystemError"}

Init ==
    /\ pc = "idle"
    /\ N = 0
    /\ L = 1
    /\ plot = FALSE
    /\ boundary_fn = "g"
    /\ i = 0
    /\ j = 0
    /\ A = NoMatrix
    /\ B = NoMatrix
    /\ lu = NoMatrix
    /\ piv = NoMatrix
    /\ rhs = NoMatrix
    /\ k = 0
    /\ X = NoMatrix
    /\ z_grid = NoMatrix
    /\ result = "pending"
    /\ exc = ""
    /\ A_sp = NoMatrix
    /\ B_sp = NoMatrix
    /\ X_sp = NoMatrix
    /\ earlier = NothingKept
    /\ todo = {}

\* A faulty variant of Call: A and B kept in module-level buffers that a
\* call allocates only when their size changes, and does not set to zero.
Call_cached_buffers ==
    /\ pc \in {"idle", "done", "raised"}
    /\ \E n \in GridSizes, l \in DomainSizes, p \in BOOLEAN, fn \in BoundaryFns :
        /\ N' = n
        /\ L' = l
        /\ plot' = p
        /\ boundary_fn' = fn
        /\ A' = IF Size(A) = n * n THEN A ELSE ZerosMatrix(n)
        /\ B' = IF Size(B) = n * n THEN B ELSE ZerosVector(n)
    /\ i' = 0
    /\ j' = 0
    /\ lu' = NoMatrix
    /\ piv' = NoMatrix
    /\ rhs' = NoMatrix
    /\ k' = 0
    /\ X' = NoMatrix
    /\ z_grid' = NoMatrix
    /\ result' = "pending"
    /\ exc' = ""
    /\ UNCHANGED <<A_sp, B_sp, X_sp, earlier, todo>>
    /\ pc' = "matrix_builder"

\* naive_solver(N, L, plot) is called and enters matrix_builder, which
\* allocates A and B and starts its loops.
Call ==
    /\ pc \in {"idle", "done", "raised"}
    /\ \E n \in GridSizes, l \in DomainSizes, p \in BOOLEAN, fn \in BoundaryFns :
        /\ N' = n
        /\ L' = l
        /\ plot' = p
        /\ boundary_fn' = fn
        /\ A' = ZerosMatrix(n)
        /\ B' = ZerosVector(n)
    /\ i' = 0
    /\ j' = 0
    /\ lu' = NoMatrix
    /\ piv' = NoMatrix
    /\ rhs' = NoMatrix
    /\ k' = 0
    /\ X' = NoMatrix
    /\ z_grid' = NoMatrix
    /\ result' = "pending"
    /\ exc' = ""
    /\ A_sp' = NoMatrix
    /\ B_sp' = NoMatrix
    /\ X_sp' = NoMatrix
    /\ earlier' = earlier
    /\ todo' = todo
    /\ pc' = "matrix_builder"

\* A faulty variant of Advance: "return A, B" indented into the outer loop,
\* so that matrix_builder returns after the first grid line.
Advance_return_in_loop ==
    IF j + 1 < N THEN i' = i /\ j' = j + 1 /\ pc' = "matrix_builder"
    ELSE i' = i /\ j' = j /\ pc' = "matrix_solver"

\* The position after the loop body at (i, j): the next j, else the next i,
\* else the loops are over and matrix_builder returns A, B.
Advance ==
    IF j + 1 < N THEN i' = i /\ j' = j + 1 /\ pc' = "matrix_builder"
    ELSE IF i + 1 < N THEN i' = i + 1 /\ j' = 0 /\ pc' = "matrix_builder"
    ELSE i' = i /\ j' = j /\ pc' = "matrix_solver"

\* A faulty variant of BuilderStep: the ZeroDivisionError of g caught and
\* dropped inside the loop, B[k] left as it is and the loops carried on.
BuilderStep_swallow ==
    /\ pc = "matrix_builder"
    /\ IF Inside(N, L, i, j)
       THEN /\ A' = InteriorRow(A, N, i, j)
            /\ B' = B
       ELSE /\ A' = BoundaryRow(A, N, i, j)
            /\ B' = IF L = 0 THEN B ELSE BoundaryRhs(B, N, L, i, j)
    /\ exc' = exc
    /\ Advance
    /\ UNCHANGED <<A_sp, B_sp, X_sp, earlier, todo>>
    /\ UNCHANGED <<N, L, plot, boundary_fn, lu, piv, rhs, k, X, z_grid, result>>

\* One pass of the loop body of matrix_builder at grid point (i, j).
BuilderStep ==
    /\ pc = "matrix_builder"
    /\ IF Inside(N, L, i, j)
       THEN IF \A t \in 1..5 : IndexOk(StencilColumns(N, i, j)[t], N * N)
            THEN /\ A' = InteriorRow(A, N, i, j)
                 /\ B' = B
                 /\ exc' = exc
                 /\ Advance
            ELSE /\ pc' = "raised"
                 /\ exc' = "IndexError"
                 /\ UNCHANGED <<A, B, i, j>>
       ELSE IF L = 0
            THEN /\ A' = BoundaryRow(A, N, i, j)
                 /\ pc' = "raised"
                 /\ exc' = "ZeroDivisionError"
                 /\ UNCHANGED <<B, i, j>>
            ELSE /\ A' = BoundaryRow(A, N, i, j)
                 /\ B' = BoundaryRhs(B, N, L, i, j)
                 /\ exc' = exc
                 /\ Advance
    /\ UNCHANGED <<A_sp, B_sp, X_sp, earlier, todo>>
    /\ UNCHANGED <<N, L, plot, boundary_fn, lu, piv, rhs, k, X, z_grid, result>>

----------------------------------------------------------------------------
(* matrix_solver: scipy.linalg.lu_factor and lu_solve, i.e. LAPACK's getrf  *)
(* (partial pivoting, the first largest entry of the column) and getrs,    *)
(* computed over the rationals, one column or row per step.                *)

\* A faulty variant of PivotRow: a factorisation without pivoting, the
\* diagonal entry taken as the pivot whatever it is.
PivotRow_diagonal(M, c, n) == c

\* The pivot row of column c: the first row from c on whose entry in that
\* column is largest in absolute value.
PivotRow(M, c, n) ==
    CHOOSE p \in c..(n - 1) :
        /\ \A r \in c..(n - 1) : ~RLess(RAbs(M[p][c]), RAbs(M[r][c]))
        /\ \A r \in c..(p - 1) : RLess(RAbs(M[r][c]), RAbs(M[p][c]))

SwapRows(M, r1, r2) == [M EXCEPT ![r1] = M[r2], ![r2] = M[r1]]

\* Column c of the factorisation, the pivot row already in row c: every row
\* below keeps its multiplier in column c and has the pivot row taken off.
\* A zero pivot leaves the column as it is.
EliminateColumn(M, c, n) ==
    IF M[c][c] = Zero THEN M
    ELSE [r \in 0..(n - 1) |->
            IF r <= c \/ M[r][c] = Zero THEN M[r]
            ELSE [t \in 0..(n - 1) |->
                    IF t < c THEN M[r][t]
                    ELSE IF t = c THEN RDiv(M[r][c], M[c][c])
                    ELSE IF M[c][t] = Zero THEN M[r][t]
                    ELSE RSub(M[r][t], RMul(RDiv(M[r][c], M[c][c]), M[c][t]))]]

\* row[lo] * vec[lo] + ... + row[hi] * vec[hi]
RECURSIVE Dot(_, _, _, _)
Dot(row, vec, lo, hi) ==
    IF lo > hi THEN Zero
    ELSE IF row[lo] = Zero \/ vec[lo] = Zero THEN Dot(row, vec, lo + 1, hi)
    ELSE RAdd(RMul(row[lo], vec[lo]), Dot(row, vec, lo + 1, hi))

\* A faulty variant of ForwardRow: the sign of the update lost.
ForwardRow_added(M, y, r) == [y EXCEPT ![r] = RAdd(y[r], Dot(M[r], y, 0, r - 1))]

\* Row r of the solve with the unit lower triangle.
ForwardRow(M, y, r) == [y EXCEPT ![r] = RSub(y[r], Dot(M[r], y, 0, r - 1))]

\* A faulty variant of BackRow: the division by the pivot left out.
BackRow_no_division(M, x, r, n) ==
    [x EXCEPT ![r] = RSub(x[r], Dot(M[r], x, r + 1, n - 1))]

\* Row r of the solve with the upper triangle.
BackRow(M, x, r, n) ==
    [x EXCEPT ![r] = RDiv(RSub(x[r], Dot(M[r], x, r + 1, n - 1)), M[r][r])]

\* The outcomes of row r of the solve with the upper triangle. LAPACK's getrs
\* tests no pivot. A non-finite value above row r, or a nonzero value divided
\* by a zero pivot, leaves a non-finite x[r]; 0 divided by a zero pivot is
\* nan, or is left 0 by a BLAS that skips the rows whose right-hand side is
\* 0 (the reference dtrsm).
BackRows(M, x, r, n) ==
    IF \E t \in (r + 1)..(n - 1) : x[t] = NonFinite
    THEN {[x EXCEPT ![r] = NonFinite]}
    ELSE IF M[r][r] # Zero THEN {BackRow(M, x, r, n)}
    ELSE IF RSub(x[r], Dot(M[r], x, r + 1, n - 1)) # Zero
    THEN {[x EXCEPT ![r] = NonFinite]}
    ELSE {[x EXCEPT ![r] = Zero], [x EXCEPT ![r] = NonFinite]}

\* A faulty variant of Reshape: the column-major reshape,
\* X.reshape((N, N), order='F'), field[i][j] = X[j*N + i].
Reshape_column_major(x, n) ==
    [ii \in 0..(n - 1) |-> [jj \in 0..(n - 1) |-> x[Flat(n, jj, ii)]]]

\* X.reshape((N, N)): field[i][j] = X[i*N + j]
Reshape(x, n) == [ii \in 0..(n - 1) |-> [jj \in 0..(n - 1) |-> x[Flat(n, ii, jj)]]]

\* matrix_builder has returned A, B; naive_solver calls matrix_solver(A, B),
\* and la.lu_factor(A) starts on a copy of A.
matrix_solver ==
    /\ pc = "matrix_solver"
    /\ lu' = [r \in DOMAIN A |-> [c \in DOMAIN A |-> FromInt(A[r][c])]]
    /\ piv' = [r \in DOMAIN A |-> r]
    /\ k' = 0
    /\ pc' = "getrf_pivot"
    /\ UNCHANGED <<A_sp, B_sp, X_sp, earlier, todo>>
    /\ UNCHANGED <<N, L, plot, boundary_fn, i, j, A, B, rhs, X, z_grid, result, exc>>

\* lu_factor, column k: the pivot row is found and brought to row k.
FactorPivot ==
    /\ pc = "getrf_pivot"
    /\ lu' = SwapRows(lu, k, PivotRow(lu, k, Size(lu)))
    /\ piv' = [piv EXCEPT ![k] = PivotRow(lu, k, Size(lu))]
    /\ pc' = "getrf_eliminate"
    /\ UNCHANGED <<A_sp, B_sp, X_sp, earlier, todo>>
    /\ UNCHANGED <<N, L, plot, boundary_fn, i, j, A, B, rhs, k, X, z_grid, result, exc>>

\* lu_factor, column k: the rows below the pivot are eliminated; a zero pivot
\* (a singular matrix) is only reported with a LinAlgWarning. After the
\* last column lu_factor returns (lu, piv) and la.lu_solve starts on a copy
\* of B.
FactorEliminate ==
    /\ pc = "getrf_eliminate"
    /\ lu' = EliminateColumn(lu, k, Size(lu))
    /\ IF k + 1 < Size(lu)
       THEN k' = k + 1 /\ pc' = "getrf_pivot" /\ rhs' = rhs
       ELSE k' = 0 /\ pc' = "getrs_permute" /\ rhs' = B
    /\ UNCHANGED <<A_sp, B_sp, X_sp, earlier, todo>>
    /\ UNCHANGED <<N, L, plot, boundary_fn, i, j, A, B, piv, X, z_grid, result, exc>>

\* lu_solve: the row interchanges are applied to the right-hand side.
SolvePermute ==
    /\ pc = "getrs_permute"
    /\ rhs' = SwapRows(rhs, k, piv[k])
    /\ IF k + 1 < Size(rhs)
       THEN k' = k + 1 /\ pc' = "getrs_permute"
       ELSE k' = 0 /\ pc' = "getrs_forward"
    /\ UNCHANGED <<A_sp, B_sp, X_sp, earlier, todo>>
    /\ UNCHANGED <<N, L, plot, boundary_fn, i, j, A, B, lu, piv, X, z_grid, result, exc>>

\* lu_solve: forward substitution, row k.
SolveForward ==
    /\ pc = "getrs_forward"
    /\ rhs' = ForwardRow(lu, rhs, k)
    /\ IF k + 1 < Size(rhs)
       THEN k' = k + 1 /\ pc' = "getrs_forward"
       ELSE k' = Size(rhs) - 1 /\ pc' = "getrs_back"
    /\ UNCHANGED <<A_sp, B_sp, X_sp, earlier, todo>>
    /\ UNCHANGED <<N, L, plot, boundary_fn, i, j, A, B, lu, piv, X, z_grid, result, exc>>

\* A faulty variant of SolveBack: la.lu_solve(..., overwrite_b=True), the
\* back substitution done in B itself.
SolveBack_overwrite_b ==
    /\ pc = "getrs_back"
    /\ \E nx \in BackRows(lu, rhs, k, Size(rhs)) :
        /\ rhs' = nx
        /\ B' = nx
        /\ IF k > 0
           THEN k' = k - 1 /\ pc' = "getrs_back" /\ X' = X
           ELSE k' = k /\ pc' = "plot" /\ X' = nx
    /\ UNCHANGED <<A_sp, B_sp, X_sp, earlier, todo>>
    /\ UNCHANGED <<N, L, plot, boundary_fn, i, j, A, lu, piv, z_grid, result, exc>>

\* lu_solve: back substitution, row k. After row 0 matrix_solver returns and
\* naive_solver binds the result to X.
SolveBack ==
    /\ pc = "getrs_back"
    /\ \E nx \in BackRows(lu, rhs, k, Size(rhs)) :
        /\ rhs' = nx
        /\ IF k > 0
           THEN k' = k - 1 /\ pc' = "getrs_back" /\ X' = X
           ELSE k' = k /\ pc' = "plot" /\ X' = nx
    /\ UNCHANGED <<A_sp, B_sp, X_sp, earlier, todo>>
    /\ UNCHANGED <<N, L, plot, boundary_fn, i, j, A, B, lu, piv, z_grid, result, exc>>

\* h = L/(N - 1), the grid spacing plot_solution computes (N >= 2).
h(n, l) == Rat(l, n - 1)

\* A faulty variant of plot_solution: np.resize(X, (N, N)) in place of
\* X.reshape((N, N)), which repeats or truncates X instead of failing.
plot_solution_resize ==
    /\ pc = "plot"
    /\ plot
    /\ IF N = 1
       THEN pc' = "raised" /\ exc' = "ZeroDivisionError" /\ z_grid' = z_grid
       ELSE /\ pc' = "return"
            /\ exc' = exc
            /\ z_grid' = [ii \in 0..(N - 1) |-> [jj \in 0..(N - 1) |->
                    IF Size(X) = 0 THEN Zero ELSE X[Flat(N, ii, jj) % Size(X)]]]
    /\ UNCHANGED <<A_sp, B_sp, X_sp, earlier, todo>>
    /\ UNCHANGED <<N, L, plot, boundary_fn, i, j, A, B, lu, piv, rhs, k, X, result>>

\* "if plot: plot_solution(N, L, X)": h = L/(N - 1) divides by zero for
\* N = 1; X.reshape((N, N)) raises numpy's ValueError when X has not N*N
\* entries; otherwise X is reshaped into z_grid and drawn.
plot_solution ==
    /\ pc = "plot"
    /\ plot
    /\ IF N = 1
       THEN pc' = "raised" /\ exc' = "ZeroDivisionError" /\ z_grid' = z_grid
       ELSE IF Size(X) # N * N
       THEN pc' = "raised" /\ exc' = "ValueError" /\ z_grid' = z_grid
       ELSE pc' = "return" /\ exc' = exc /\ z_grid' = Reshape(X, N)
    /\ UNCHANGED <<A_sp, B_sp, X_sp, earlier, todo>>
    /\ UNCHANGED <<N, L, plot, boundary_fn, i, j, A, B, lu, piv, rhs, k, X, result>>

\* A faulty variant of Return: naive_solver ending with "return X", the caller
\* receiving the solution vector.
Return_solution ==
    /\ \/ pc = "return"
       \/ pc = "plot" /\ ~plot
    /\ result' = "X"
    /\ pc' = "done"
    /\ UNCHANGED <<A_sp, B_sp, X_sp, earlier, todo>>
    /\ UNCHANGED <<N, L, plot, boundary_fn, i, j, A, B, lu, piv, rhs, k, X, z_grid, exc>>

\* naive_solver falls off its end: the caller receives None.
Return ==
    /\ \/ pc = "return"
       \/ pc = "plot" /\ ~plot
    /\ result' = "None"
    /\ pc' = "done"
    /\ UNCHANGED <<A_sp, B_sp, X_sp, earlier, todo>>
    /\ UNCHANGED <<N, L, plot, boundary_fn, i, j, A, B, lu, piv, rhs, k, X, z_grid, exc>>

Next ==
    \/ Call
    \/ BuilderStep
    \/ matrix_solver
    \/ FactorPivot
    \/ FactorEliminate
    \/ SolvePermute
    \/ SolveForward
    \/ SolveBack
    \/ plot_solution
    \/ Return

Spec == Init /\ [][Next]_vars

\* naive_solver is straight-line synchronous code: once matrix_solver has
\* returned, the "if plot:" statement and the end of the function are run.
FairSpec == Spec /\ WF_vars(plot_solution) /\ WF_vars(Return)

\* The codec's toVector(field, N) of the data model: the vector X of length
\* N*N with X[i*N + j] = field[i][j]. The source has no such conversion.
ToVector(field, n) == [kk \in 0..(n * n - 1) |-> field[kk \div n][kk % n]]

----------------------------------------------------------------------------
(* matrix_solver and plot_solution called on their own, with arguments that *)
(* need not come from matrix_builder: one call from a fresh kernel.        *)

\* matrix_solver(A, B) is called with a square A of integer entries and a B
\* of the same length.
CallSolver ==
    /\ pc = "idle"
    /\ \E n \in SolverOrders :
        \E a \in [0..(n - 1) -> [0..(n - 1) -> 0..MaxEntry]], b \in [0..(n - 1) -> 0..1] :
            /\ A' = a
            /\ B' = [r \in 0..(n - 1) |-> FromInt(b[r])]
    /\ N' = 0
    /\ L' = 1
    /\ plot' = FALSE
    /\ boundary_fn' = "g"
    /\ i' = 0
    /\ j' = 0
    /\ lu' = NoMatrix
    /\ piv' = NoMatrix
    /\ rhs' = NoMatrix
    /\ k' = 0
    /\ X' = NoMatrix
    /\ z_grid' = NoMatrix
    /\ result' = "pending"
    /\ exc' = ""
    /\ A_sp' = NoMatrix
    /\ B_sp' = NoMatrix
    /\ X_sp' = NoMatrix
    /\ earlier' = earlier
    /\ todo' = todo
    /\ pc' = "matrix_solver"

\* plot_solution(N, L, X) is called with a vector X of any length.
CallPlot ==
    /\ pc = "idle"
    /\ \E n \in CodecSizes, l \in DomainSizes, len \in 0..MaxVec :
        \E x \in [0..(len - 1) -> 0..MaxEntry] :
            /\ N' = n
            /\ L' = l
            /\ X' = [r \in 0..(len - 1) |-> FromInt(x[r])]
    /\ plot' = TRUE
    /\ boundary_fn' = "g"
    /\ i' = 0
    /\ j' = 0
    /\ A' = NoMatrix
    /\ B' = NoMatrix
    /\ lu' = NoMatrix
    /\ piv' = NoMatrix
    /\ rhs' = NoMatrix
    /\ k' = 0
    /\ z_grid' = NoMatrix
    /\ result' = "pending"
    /\ exc' = ""
    /\ A_sp' = NoMatrix
    /\ B_sp' = NoMatrix
    /\ X_sp' = NoMatrix
    /\ earlier' = earlier
    /\ todo' = todo
    /\ pc' = "plot"

NextDirect ==
    \/ CallSolver
    \/ CallPlot
    \/ matrix_solver
    \/ FactorPivot
    \/ FactorEliminate
    \/ SolvePermute
    \/ SolveForward
    \/ SolveBack
    \/ plot_solution

DirectSpec == Init /\ [][NextDirect]_vars

----------------------------------------------------------------------------
(* matrix_builder called on its own, again and again, by a caller who may  *)
(* keep the A, B of one call while making others.                          *)

\* matrix_builder(N, L) returns A, B to its caller, who keeps the pair in
\* place of the one held so far, or drops it.
BuilderReturn ==
    /\ pc = "matrix_solver"
    /\ \E keep \in BOOLEAN :
        earlier' = IF keep
                   THEN [kept |-> TRUE, N |-> N, L |-> L, A |-> A, B |-> B, X |-> X]
                   ELSE earlier
    /\ pc' = "done"
    /\ UNCHANGED <<A_sp, B_sp, X_sp, todo>>
    /\ UNCHANGED <<N, L, plot, boundary_fn, i, j, A, B, lu, piv, rhs, k, X, z_grid, result, exc>>

NextBuilder ==
    \/ Call
    \/ BuilderStep
    \/ BuilderReturn

BuilderSpec == Init /\ [][NextBuilder]_vars

----------------------------------------------------------------------------
(* The loop body of matrix_builder run over the grid points in another     *)
(* order: matrix_builder(N, L) is called and its nested loops produce A, B; *)
(* the caller keeps them, and the loop body is then run on fresh zero      *)
(* arrays once for every grid point, the points taken in any order, as     *)
(* parallel workers sharing A and B would.                                 *)

\* The largest grid on which every order of the N*N points is tried.
MaxOrderN == 3

\* The domain sizes of these calls: a negative one, zero and a positive one
\* (Inside depends on the sign of L only, and g's argument (2x + y)/L on
\* the grid indices only).
OrderDomains == {-1, 0, MaxL}

\* matrix_builder(N, L) is called on its own.
CallBuilder ==
    /\ pc = "idle"
    /\ \E n \in 1..MaxOrderN, l \in OrderDomains :
        /\ N' = n
        /\ L' = l
        /\ A' = ZerosMatrix(n)
        /\ B' = ZerosVector(n)
    /\ i' = 0
    /\ j' = 0
    /\ pc' = "matrix_builder"
    /\ UNCHANGED <<A_sp, B_sp, X_sp, earlier, todo>>
    /\ UNCHANGED <<plot, boundary_fn, lu, piv, rhs, k, X, z_grid, result, exc>>

\* The nested loops have returned A, B: the caller keeps them and allocates
\* A, B anew for the run in another order, every grid point still to do.
Reorder ==
    /\ pc = "matrix_solver"
    /\ earlier' = [kept |-> TRUE, N |-> N, L |-> L, A |-> A, B |-> B, X |-> X]
    /\ A' = ZerosMatrix(N)
    /\ B' = ZerosVector(N)
    /\ todo' = (0..(N - 1)) \X (0..(N - 1))
    /\ pc' = "any_order"
    /\ UNCHANGED <<A_sp, B_sp, X_sp>>
    /\ UNCHANGED <<N, L, plot, boundary_fn, i, j, lu, piv, rhs, k, X, z_grid, result, exc>>

\* The loop body at one of the grid points still to do, whichever it is.
VisitPoint ==
    /\ pc = "any_order"
    /\ \E p \in todo :
        /\ todo' = todo \ {p}
        /\ IF Inside(N, L, p[1], p[2])
           THEN IF \A t \in 1..5 : IndexOk(StencilColumns(N, p[1], p[2])[t], N * N)
                THEN /\ A' = InteriorRow(A, N, p[1], p[2])
                     /\ B' = B
                     /\ exc' = exc
                     /\ pc' = IF todo' = {} THEN "any_order_done" ELSE "any_order"
                ELSE /\ pc' = "raised"
                     /\ exc' = "IndexError"
                     /\ UNCHANGED <<A, B>>
           ELSE IF L = 0
                THEN /\ A' = BoundaryRow(A, N, p[1], p[2])
                     /\ pc' = "raised"
                     /\ exc' = "ZeroDivisionError"
                     /\ B' = B
                ELSE /\ A' = BoundaryRow(A, N, p[1], p[2])
                     /\ B' = BoundaryRhs(B, N, L, p[1], p[2])
                     /\ exc' = exc
                     /\ pc' = IF todo' = {} THEN "any_order_done" ELSE "any_order"
    /\ UNCHANGED <<A_sp, B_sp, X_sp, earlier>>
    /\ UNCHANGED <<N, L, plot, boundary_fn, i, j, lu, piv, rhs, k, X, z_grid, result>>

NextOrder ==
    \/ CallBuilder
    \/ BuilderStep
    \/ Reorder
    \/ VisitPoint

OrderSpec == Init /\ [][NextOrder]_vars

----------------------------------------------------------------------------
(* The assembled system solved a second time for other boundary data: the  *)
(* caller of matrix_builder and matrix_solver keeps A, B and X, changes one *)
(* boundary value in B and calls matrix_solver(A, B) again.                *)

\* The amounts by which the caller changes a boundary value.
BoundaryChanges == {-1, 1}

\* matrix_solver has returned X for the assembled A, B: the caller keeps
\* them, changes B at the row of one boundary point and solves again.
ChangeBoundaryValue ==
    /\ pc = "plot"
    /\ ~earlier.kept
    /\ earlier' = [kept |-> TRUE, N |-> N, L |-> L, A |-> A, B |-> B, X |-> X]
    /\ \E q \in (0..(N - 1)) \X (0..(N - 1)), d \in BoundaryChanges :
        /\ ~Inside(N, L, q[1], q[2])
        /\ B' = [B EXCEPT ![Flat(N, q[1], q[2])] = RAdd(@, FromInt(d))]
    /\ lu' = NoMatrix
    /\ piv' = NoMatrix
    /\ rhs' = NoMatrix
    /\ k' = 0
    /\ X' = NoMatrix
    /\ pc' = "matrix_solver"
    /\ UNCHANGED <<A_sp, B_sp, X_sp, todo>>
    /\ UNCHANGED <<N, L, plot, boundary_fn, i, j, A, z_grid, result, exc>>

NextResolve ==
    \/ Call
    \/ BuilderStep
    \/ matrix_solver
    \/ FactorPivot
    \/ FactorEliminate
    \/ SolvePermute
    \/ SolveForward
    \/ SolveBack
    \/ ChangeBoundaryValue

ResolveSpec == Init /\ [][NextResolve]_vars

----------------------------------------------------------------------------
(* The sparse strategy of part 2 (exercise 8: sparse_matrix_builder,       *)
(* sparse_matrix_solver, sparse_solver), whose cells are empty in the      *)
(* source. It is modelled from the specification of the assembler and of   *)
(* the sparse strategy: the assembly rule of the data model on a row-wise  *)
(* encoding that stores the written columns only, and a direct solve by    *)
(* elimination on those rows. It is run after the dense strategy, on the   *)
(* same N and L and with the same g.                                       *)

\* Grid coordinate idx of the data model: -L/2 + idx*h, h = L/(N - 1).
GridCoordinate(n, l, idx) == RAdd(Rat(-l, 2), RMul(FromInt(idx), Rat(l, n - 1)))

\* The interior row kk of the data model: -4 at the centre, 1 at the four
\* axis neighbours kk - N, kk + N, kk - 1, kk + 1.
SparseInteriorRow(n, kk) ==
    [c \in {kk, kk - n, kk + n, kk - 1, kk + 1} |-> IF c = kk THEN -4 ELSE 1]

\* The boundary row kk of the data model: 1 at the centre.
SparseBoundaryRow(kk) == [c \in {kk} |-> 1]

\* The entry of a sparse row in column c: 0 where nothing is stored.
Entry(row, c) == IF c \in DOMAIN row THEN row[c] ELSE 0

\* The dense matrix of order n a sparse encoding stands for.
Materialize(S, n) == [r \in 0..(n - 1) |-> [c \in 0..(n - 1) |-> Entry(S[r], c)]]

\* The number of scalars a sparse encoding stores.
Stored(S) == SumOver([r \in DOMAIN S |-> Cardinality(DOMAIN S[r])], DOMAIN S)

\* The entry of a sparse row of rationals in column c.
REntry(row, c) == IF c \in DOMAIN row THEN row[c] ELSE Zero

\* Row r of the elimination of column c: the pivot row, scaled, is taken off
\* the stored columns of the two rows; column c is no longer stored.
SparseEliminatedRow(W, r, c) ==
    [t \in (DOMAIN W[r] \cup DOMAIN W[c]) \ {c} |->
        RSub(REntry(W[r], t), RMul(RDiv(W[r][c], W[c][c]), REntry(W[c], t)))]

\* sparse_solver(N, L) is called once the dense strategy has returned its X:
\* the assembler rejects N < 2 and L <= 0, else starts on empty rows.
sparse_solver ==
    /\ pc = "plot"
    /\ IF N < 2
       THEN /\ pc' = "raised"
            /\ exc' = "InvalidGridError"
            /\ UNCHANGED <<A_sp, B_sp, i, j>>
       ELSE IF L <= 0
       THEN /\ pc' = "raised"
            /\ exc' = "InvalidDomainError"
            /\ UNCHANGED <<A_sp, B_sp, i, j>>
       ELSE /\ pc' = "sparse_matrix_builder"
            /\ exc' = exc
            /\ A_sp' = [r \in 0..(N * N - 1) |-> <<>>]
            /\ B_sp' = ZerosVector(N)
            /\ i' = 0
            /\ j' = 0
    /\ UNCHANGED <<N, L, plot, boundary_fn, A, B, lu, piv, rhs, k, X, z_grid, result, X_sp,
                 earlier, todo>>

\* The assembly of row i*N + j in the sparse encoding. After the last row
\* sparse_matrix_solver starts on copies of A_sp and B_sp.
SparseBuilderStep ==
    /\ pc = "sparse_matrix_builder"
    /\ IF 0 < i /\ i < N - 1 /\ 0 < j /\ j < N - 1
       THEN /\ A_sp' = [A_sp EXCEPT ![i * N + j] = SparseInteriorRow(N, i * N + j)]
            /\ B_sp' = B_sp
       ELSE /\ A_sp' = [A_sp EXCEPT ![i * N + j] = SparseBoundaryRow(i * N + j)]
            /\ B_sp' = [B_sp EXCEPT ![i * N + j] =
                            g(L, GridCoordinate(N, L, i), GridCoordinate(N, L, j))]
    /\ IF j + 1 < N
       THEN i' = i /\ j' = j + 1 /\ pc' = "sparse_matrix_builder"
                   /\ UNCHANGED <<lu, rhs, k>>
       ELSE IF i + 1 < N
       THEN i' = i + 1 /\ j' = 0 /\ pc' = "sparse_matrix_builder"
                       /\ UNCHANGED <<lu, rhs, k>>
       ELSE /\ i' = i /\ j' = j /\ pc' = "sparse_eliminate"
            /\ lu' = [r \in DOMAIN A_sp' |->
                        [c \in DOMAIN A_sp'[r] |-> FromInt(A_sp'[r][c])]]
            /\ rhs' = B_sp'
            /\ k' = 0
    /\ UNCHANGED <<N, L, plot, boundary_fn, A, B, piv, X, z_grid, result, exc, X_sp,
                 earlier, todo>>

\* The sparse direct solve, column k: the rows below that store column k
\* have the pivot row taken off, in the matrix and in the right-hand side.
\* A pivot that is missing or 0 ends the solve with SingularSystemError.
SparseEliminate ==
    /\ pc = "sparse_eliminate"
    /\ IF REntry(lu[k], k) = Zero
       THEN /\ pc' = "raised"
            /\ exc' = "SingularSystemError"
            /\ UNCHANGED <<lu, rhs, k>>
       ELSE /\ lu' = [r \in DOMAIN lu |->
                        IF r > k /\ k \in DOMAIN lu[r]
                        THEN SparseEliminatedRow(lu, r, k) ELSE lu[r]]
            /\ rhs' = [r \in DOMAIN rhs |->
                        IF r > k /\ k \in DOMAIN lu[r]
                        THEN RSub(rhs[r], RMul(RDiv(lu[r][k], lu[k][k]), rhs[k]))
                        ELSE rhs[r]]
            /\ exc' = exc
            /\ IF k + 1 < Size(lu)
               THEN k' = k + 1 /\ pc' = "sparse_eliminate"
               ELSE k' = k /\ pc' = "sparse_back"
    /\ UNCHANGED <<A_sp, B_sp, X_sp, earlier, todo>>
    /\ UNCHANGED <<N, L, plot, boundary_fn, i, j, A, B, piv, X, z_grid, result>>

\* The sparse direct solve, row k of the back substitution. After row 0
\* sparse_matrix_solver returns the solution.
SparseBack ==
    /\ pc = "sparse_back"
    /\ LET dense == [t \in 0..(Size(lu) - 1) |-> REntry(lu[k], t)]
           nx == [rhs EXCEPT ![k] =
                    RDiv(RSub(rhs[k], Dot(dense, rhs, k + 1, Size(lu) - 1)), lu[k][k])]
       IN  /\ rhs' = nx
           /\ IF k > 0
              THEN k' = k - 1 /\ pc' = "sparse_back" /\ X_sp' = X_sp
              ELSE k' = k /\ pc' = "sparse_done" /\ X_sp' = nx
    /\ UNCHANGED <<A_sp, B_sp, earlier, todo>>
    /\ UNCHANGED <<N, L, plot, boundary_fn, i, j, A, B, lu, piv, X, z_grid, result, exc>>

NextSparse ==
    \/ Call
    \/ BuilderStep
    \/ matrix_solver
    \/ FactorPivot
    \/ FactorEliminate
    \/ SolvePermute
    \/ SolveForward
    \/ SolveBack
    \/ sparse_solver
    \/ SparseBuilderStep
    \/ SparseEliminate
    \/ SparseBack

SparseSpec == Init /\ [][NextSparse]_vars

----------------------------------------------------------------------------
(* Properties. The grid of the data model: point (ii, jj), 0 <= ii, jj < N, *)
(* has flat index ii*N + jj and is interior iff 0 < ii, jj < N - 1.        *)

Grid == (0..(N - 1)) \X (0..(N - 1))

Interior(ii, jj) == 0 < ii /\ ii < N - 1 /\ 0 < jj /\ jj < N - 1

\* matrix_builder has just returned A, B.
Assembled == pc = "matrix_solver"

\* matrix_solver has just returned X.
Solved == pc = "plot"

\* The number of nonzero entries of row r of A.
RowNonzeros(r) == Cardinality({c \in DOMAIN A[r] : A[r][c] # 0})

\* C1: for N >= 3 and L > 0, after matrix_builder(N, L) every row
\* k = ii*N + jj of the N*N x N*N matrix A has one of two shapes: at an
\* interior point -4 on the diagonal, 1 in columns k-N, k+N, k-1, k+1 and 0
\* elsewhere (5 nonzeros); at any other point 1 on the diagonal and 0
\* elsewhere (1 nonzero).
C1_RowShapes ==
    (Assembled /\ N >= 3 /\ L > 0) =>
        /\ DOMAIN A = 0..(N * N - 1)
        /\ \A p \in Grid :
            LET kk == p[1] * N + p[2]
            IN  /\ DOMAIN A[kk] = 0..(N * N - 1)
                /\ \A c \in 0..(N * N - 1) :
                    A[kk][c] =
                        IF Interior(p[1], p[2])
                        THEN IF c = kk THEN -4
                             ELSE IF c \in {kk - N, kk + N, kk - 1, kk + 1} THEN 1
                             ELSE 0
                        ELSE IF c = kk THEN 1 ELSE 0
                /\ RowNonzeros(kk) = IF Interior(p[1], p[2]) THEN 5 ELSE 1

\* A grid with interior points has been assembled: the row of the first
\* interior point holds the stencil and the row of the first corner a lone 1.
C1_Witness ==
    /\ Assembled /\ N >= 3 /\ L > 0
    /\ A[N + 1][N + 1] = -4 /\ A[N + 1][1] = 1 /\ A[N + 1][N] = 1
    /\ A[0][0] = 1

\* C2: after assembly (L > 0) the right-hand side B has length N*N, is 0 at
\* every interior row and, at every boundary row k = ii*N + jj, is the
\* boundary function g at the grid point (x_ii, y_jj).
C2_RightHandSide ==
    (Assembled /\ L > 0) =>
        /\ DOMAIN B = 0..(N * N - 1)
        /\ \A p \in Grid :
            B[p[1] * N + p[2]] =
                IF Interior(p[1], p[2]) THEN Zero
                ELSE g(L, x_grid(N, L, p[1], p[2]), y_grid(N, L, p[1], p[2]))

\* A right-hand side with a zero interior row between boundary rows that
\* hold different values of g.
C2_Witness ==
    /\ Assembled /\ N >= 3 /\ L > 0
    /\ B[N + 1] = Zero
    /\ B[0] # B[1]
    /\ B[1] # Zero

\* The number of turns (2x + y)/L of g's argument at grid point (ii, jj) of
\* the data model's grid x_i = -L/2 + i*h, y_j = -L/2 + j*h, h = L/(N-1):
\* -3/2 + (2*ii + jj)/(N - 1), whatever L is.
TurnsAt(ii, jj) ==
    IF N = 1 THEN Rat(-3, 2)
    ELSE Rat(2 * (2 * ii + jj) - 3 * (N - 1), 2 * (N - 1))

\* C3 as stated: the assembled B holds, at every boundary row, the value of
\* the boundary function the caller supplies.
C3_CallerFunctionInB ==
    (Assembled /\ L > 0) =>
        \A p \in Grid :
            ~Interior(p[1], p[2]) =>
                B[p[1] * N + p[2]] =
                    BoundaryValue(boundary_fn, L, x_grid(N, L, p[1], p[2]),
                                  y_grid(N, L, p[1], p[2]))

\* C3, amended: matrix_builder takes N and L only; whatever boundary function
\* the caller wants, B holds at every boundary row the value at (x_ii, y_jj)
\* of the g built into matrix_builder, cos(2*pi*(2x + y)/L), which is
\* cos(2*pi*((2*ii + jj)/(N - 1) - 3/2)).
C3_BuiltInFunctionInB ==
    (Assembled /\ L > 0) =>
        \A p \in Grid :
            ~Interior(p[1], p[2]) => B[p[1] * N + p[2]] = CosTurns(TurnsAt(p[1], p[2]))

\* The caller wants the constant 1 on the boundary and the assembled B holds
\* the cosine: -1 at the first corner, 1 next to it.
C3_Witness ==
    /\ Assembled /\ L > 0 /\ N >= 3
    /\ boundary_fn = "one"
    /\ B[0] = FromInt(-1)
    /\ B[1] = FromInt(1)

\* C4: the index mapping (ii, jj) -> ii*N + jj the assembler uses is a
\* bijection from the grid onto 0..N*N-1: indices are in range, distinct
\* points get distinct indices, every index is hit; the loops visit the
\* indices in increasing order, so the rows written so far are exactly the
\* indices below the current one, and after assembly every row is written.
C4_IndexBijection ==
    (pc # "idle") =>
        /\ \A p \in Grid : Flat(N, p[1], p[2]) \in 0..(N * N - 1)
        /\ \A p, q \in Grid : Flat(N, p[1], p[2]) = Flat(N, q[1], q[2]) => p = q
        /\ \A kk \in 0..(N * N - 1) : \E p \in Grid : Flat(N, p[1], p[2]) = kk
        /\ pc = "matrix_builder" =>
            {r \in DOMAIN A : A[r][r] # 0} = 0..(Flat(N, i, j) - 1)
        /\ Assembled => \A r \in DOMAIN A : A[r][r] # 0

\* The loops stand at the last grid point of a grid with interior points:
\* all rows but the last are written.
C4_Witness ==
    /\ pc = "matrix_builder" /\ N >= 3 /\ L > 0
    /\ i = N - 1 /\ j = N - 1
    /\ A[N * N - 2][N * N - 2] # 0
    /\ A[N * N - 1][N * N - 1] = 0

\* C5: every grid point is interior or boundary, never both, and for N >= 2,
\* L > 0 the assembler's coordinate test |x_ii| < L/2 and |y_jj| < L/2 is the
\* index rule 0 < ii, jj < N - 1; it is the same for every L > 0, and the
\* assembled rows follow it.
C5_Classification ==
    (pc # "idle" /\ N >= 2 /\ L > 0) =>
        /\ \A p \in Grid : Inside(N, L, p[1], p[2]) <=> Interior(p[1], p[2])
        /\ \A p \in Grid : \A l \in 1..MaxL :
                Inside(N, l, p[1], p[2]) <=> Inside(N, L, p[1], p[2])
        /\ \A p \in Grid :
                ~Interior(p[1], p[2]) <=>
                    (p[1] \in {0, N - 1} \/ p[2] \in {0, N - 1})
        /\ Assembled =>
            \A p \in Grid :
                A[p[1] * N + p[2]][p[1] * N + p[2]] =
                    IF Interior(p[1], p[2]) THEN -4 ELSE 1

\* The loops stand at an interior point, which the coordinate test accepts.
C5_Witness ==
    /\ pc = "matrix_builder" /\ N >= 3 /\ L > 0
    /\ Interior(i, j)
    /\ Inside(N, L, i, j)

\* C6: for N >= 2 (and L > 0) the assembled A has 4*(N-2)^2 + N^2 nonzero
\* entries, 5 in each interior row and 1 in each boundary row.
C6_NonzeroCount ==
    (Assembled /\ N >= 2 /\ L > 0) =>
        /\ SumOver([r \in DOMAIN A |-> RowNonzeros(r)], DOMAIN A) =
                4 * (N - 2) * (N - 2) + N * N
        /\ \A r \in DOMAIN A : RowNonzeros(r) \in {1, 5}
        /\ \A p \in Grid :
                RowNonzeros(p[1] * N + p[2]) = IF Interior(p[1], p[2]) THEN 5 ELSE 1

\* A 4 x 4 grid is assembled: 4 interior rows of 5 and 12 boundary rows of 1.
C6_Witness ==
    /\ Assembled /\ N = 4 /\ L > 0
    /\ Cardinality({r \in DOMAIN A : RowNonzeros(r) = 5}) = 4
    /\ Cardinality({r \in DOMAIN A : RowNonzeros(r) = 1}) = 12

\* C7 as stated: the assembled A is symmetric in structure, A[k][m] is
\* nonzero iff A[m][k] is.
C7_StructurallySymmetric ==
    (Assembled /\ L > 0) =>
        \A r, c \in DOMAIN A : (A[r][c] # 0) <=> (A[c][r] # 0)

\* C7, amended: A is symmetric on the interior rows and columns, A[k][m] =
\* A[m][k] for interior points k, m; a boundary row holds nothing but its
\* diagonal, so the 1 an interior row holds in the column of a neighbouring
\* boundary point has no mirror entry, and A is symmetric in structure only
\* when there is no interior point (N <= 2).
C7_InteriorSymmetric ==
    (Assembled /\ L > 0) =>
        /\ \A p, q \in Grid :
            (Interior(p[1], p[2]) /\ Interior(q[1], q[2])) =>
                A[p[1] * N + p[2]][q[1] * N + q[2]] = A[q[1] * N + q[2]][p[1] * N + p[2]]
        /\ \A p, q \in Grid :
            (~Interior(p[1], p[2]) /\ p # q) => A[p[1] * N + p[2]][q[1] * N + q[2]] = 0
        /\ N <= 2 => \A r, c \in DOMAIN A : (A[r][c] # 0) <=> (A[c][r] # 0)

\* Two neighbouring interior points hold a 1 for each other, and an interior
\* point next to the frame holds a 1 that the boundary row does not mirror.
C7_Witness ==
    /\ Assembled /\ N >= 4 /\ L > 0
    /\ A[N + 1][N + 2] = 1 /\ A[N + 2][N + 1] = 1
    /\ A[N + 1][1] = 1 /\ A[1][N + 1] = 0

\* C8: boundary fidelity. For L > 0 the solved field equals g(x_ii, y_jj) at
\* every boundary grid point, the four corners included, both in X and in
\* the N x N field plot_solution reshapes it to.
C8_BoundaryFidelity ==
    /\ (Solved /\ L > 0) =>
        /\ DOMAIN X = 0..(N * N - 1)
        /\ \A p \in Grid :
            ~Interior(p[1], p[2]) =>
                /\ X[p[1] * N + p[2]] =
                    g(L, x_grid(N, L, p[1], p[2]), y_grid(N, L, p[1], p[2]))
                /\ X[p[1] * N + p[2]] = B[p[1] * N + p[2]]
    /\ (pc = "return" /\ plot /\ L > 0) =>
        \A p \in Grid :
            ~Interior(p[1], p[2]) =>
                z_grid[p[1]][p[2]] =
                    g(L, x_grid(N, L, p[1], p[2]), y_grid(N, L, p[1], p[2]))

\* A solved grid with interior points, plotted: the four corners of the
\* field hold g, which is -1 at (x_0, y_0).
C8_Witness ==
    /\ pc = "return" /\ plot /\ L > 0 /\ N >= 3
    /\ z_grid[0][0] = FromInt(-1)
    /\ z_grid[0][N - 1] = X[N - 1]
    /\ z_grid[N - 1][0] = X[(N - 1) * N]
    /\ z_grid[N - 1][N - 1] = X[N * N - 1]

\* Row r of A times the vector x.
RowTimes(r, x) == Dot([c \in DOMAIN A[r] |-> FromInt(A[r][c])], x, 0, Size(A) - 1)

\* C9: interior consistency. The X returned by matrix_solver satisfies
\* A X = B, so at every interior point (L > 0) the four neighbours of the
\* field minus four times its value there is 0.
C9_InteriorConsistency ==
    Solved =>
        /\ \A r \in DOMAIN A : RowTimes(r, X) = B[r]
        /\ L > 0 =>
            \A p \in Grid :
                Interior(p[1], p[2]) =>
                    LET kk == p[1] * N + p[2]
                    IN  RAdd(RAdd(X[kk - N], X[kk + N]), RAdd(X[kk - 1], X[kk + 1]))
                            = RMul(FromInt(4), X[kk])

\* A 4 x 4 grid is solved and its field is not zero at an interior point.
C9_Witness ==
    /\ Solved /\ N >= 4 /\ L > 0
    /\ \E p \in Grid : Interior(p[1], p[2]) /\ X[p[1] * N + p[2]] # Zero

\* The sum of the entries of row r of A.
RowSum(r) == SumOver(A[r], DOMAIN A[r])

\* C10 as stated: for the constant boundary function 1 (the case N = 3,
\* L = 2, and any N >= 3) the solved field is 1 at every grid point.
C10_WantedConstantField ==
    (Solved /\ L > 0 /\ N >= 3 /\ boundary_fn = "one") =>
        \A r \in DOMAIN X : X[r] = FromInt(1)

\* C10, amended: matrix_builder has no boundary-function argument, so the
\* field is solved for the built-in g, not for a constant the caller wants.
\* Every interior row of A sums to 0 and every boundary row to 1, so a
\* constant field c satisfies every interior stencil row and every boundary
\* row whose B is c; and whenever the assembled B is one constant c on all
\* boundary rows (with the built-in g: N <= 2, c = -1) the solved field is c
\* at every grid point.
C10_ConstantData ==
    /\ (Assembled /\ L > 0) =>
        \A p \in Grid :
            RowSum(p[1] * N + p[2]) = IF Interior(p[1], p[2]) THEN 0 ELSE 1
    /\ (Solved /\ L > 0) =>
        /\ (\A p \in Grid : ~Interior(p[1], p[2]) => B[p[1] * N + p[2]] = B[0])
                => \A r \in DOMAIN X : X[r] = B[0]
        /\ N <= 2 => \A r \in DOMAIN X : X[r] = FromInt(-1)

\* The 2 x 2 grid is solved for a caller who wants the constant 1: B is -1
\* at its four points and so is the field.
C10_Witness ==
    /\ Solved /\ L > 0 /\ N = 2 /\ boundary_fn = "one"
    /\ \A r \in DOMAIN B : B[r] = FromInt(-1)
    /\ \A r \in DOMAIN X : X[r] = FromInt(-1)

\* C11 as stated: the entry point, called with a valid N and L, plot on or
\* off, hands back to its caller a field queryable by grid coordinate:
\* result[ii][jj] is the solution at grid point (ii, jj).
C11_ReturnsField ==
    (pc = "done" /\ N >= 2 /\ L > 0) =>
        /\ result # "None"
        /\ \A p \in Grid : result[p[1]][p[2]] = X[p[1] * N + p[2]]

\* C11, amended: naive_solver(N, L, plot) takes no boundary function and
\* hands back None, plot on or off. For every N >= 2 and L > 0 the call
\* raises nothing and computes the solution X of length N*N, which stays
\* local to the call; the field queryable by (ii, jj) exists only inside
\* plot_solution, as z_grid with z_grid[ii][jj] = X[ii*N + jj], when plot is
\* on.
C11_ReturnsNone ==
    /\ result \in {"pending", "None"}
    /\ (pc # "idle" /\ N >= 2 /\ L > 0) => pc # "raised" /\ exc = ""
    /\ (pc = "done" /\ N >= 2 /\ L > 0) =>
        /\ result = "None"
        /\ DOMAIN X = 0..(N * N - 1)
        /\ IF plot
           THEN \A p \in Grid : z_grid[p[1]][p[2]] = X[p[1] * N + p[2]]
           ELSE z_grid = NoMatrix

\* A call with plot on has returned on a grid with interior points: the
\* caller holds None while the field was built inside plot_solution.
C11_Witness ==
    /\ pc = "done" /\ N >= 3 /\ L > 0 /\ plot
    /\ result = "None"
    /\ z_grid[1][1] = X[N + 1]

\* matrix_builder is running or has raised: the solver has not started.
InBuilder == pc \in {"matrix_builder", "raised"} /\ lu = NoMatrix /\ X = NoMatrix

SolverReturned == pc = "plot" /\ ~plot

\* The determinant of A, of order 1 or 2.
Det(M) ==
    IF Size(M) = 1 THEN M[0][0] ELSE M[0][0] * M[1][1] - M[0][1] * M[1][0]

PlotEnded == plot /\ pc \in {"return", "raised"}

\* C14 as stated, ShapeMismatchError read as the ValueError of numpy's
\* reshape: the conversion of a vector X with len(X) # N*N into a field
\* fails with that error and returns no field.
C14_ShapeMismatchError ==
    (PlotEnded /\ Size(X) # N * N) =>
        /\ pc = "raised"
        /\ exc = "ValueError"
        /\ z_grid = NoMatrix

\* C14, amended: whenever len(X) # N*N the conversion fails and no field is
\* built, with the ValueError of X.reshape((N, N)) for N >= 2 (there is no
\* ShapeMismatchError) and, for N = 1, with the ZeroDivisionError of
\* h = L/(N - 1), raised before the reshape and also when len(X) = 1; a field
\* is built only from N >= 2 and len(X) = N*N.
C14_MismatchFails ==
    /\ (PlotEnded /\ Size(X) # N * N) =>
        /\ pc = "raised"
        /\ exc = IF N = 1 THEN "ZeroDivisionError" ELSE "ValueError"
        /\ z_grid = NoMatrix
    /\ (PlotEnded /\ N = 1) => pc = "raised" /\ exc = "ZeroDivisionError"
    /\ (PlotEnded /\ pc = "return") =>
        /\ N >= 2
        /\ Size(X) = N * N
        /\ DOMAIN z_grid = 0..(N - 1)

\* plot_solution was called with N = 2 and a vector of 3 entries and raised
\* the ValueError of the reshape.
C14_Witness ==
    /\ PlotEnded /\ pc = "raised" /\ exc = "ValueError"
    /\ N = 2 /\ Size(X) = 3
    /\ z_grid = NoMatrix

\* C15: when a step of the solve fails, the caller receives no partial
\* result. A call that raised has handed nothing back, and a call whose
\* assembly fails (L = 0) or whose reshaping step fails (N = 1 with plot on)
\* never returns: the partly filled A and B, and X, stay local to it.
C15_NoPartialResult ==
    /\ pc = "raised" => (result = "pending" /\ exc # "")
    /\ (pc # "idle" /\ L = 0) => (InBuilder /\ result = "pending")
    /\ (pc # "idle" /\ N = 1 /\ plot) => (pc # "done" /\ result = "pending")
    /\ exc # "" => pc = "raised"

\* The assembly has failed at the first grid point of a 3 x 3 grid: A holds
\* the one entry written before the failure and the caller holds nothing.
C15_Witness ==
    /\ pc = "raised" /\ N = 3 /\ L = 0
    /\ exc = "ZeroDivisionError"
    /\ A[0][0] = 1 /\ A[1][1] = 0
    /\ result = "pending"

\* C16: toField and toVector are mutual inverses. For every vector X of
\* length N*N the field X.reshape((N, N)) has field[ii][jj] = X[ii*N + jj]
\* for all 0 <= ii, jj < N, and toVector of that field is X again; the field
\* plot_solution builds is that field.
C16_RoundTrip ==
    (PlotEnded /\ Size(X) = N * N) =>
        /\ DOMAIN Reshape(X, N) = 0..(N - 1)
        /\ \A ii, jj \in 0..(N - 1) :
            /\ DOMAIN Reshape(X, N)[ii] = 0..(N - 1)
            /\ Reshape(X, N)[ii][jj] = X[ii * N + jj]
        /\ ToVector(Reshape(X, N), N) = X
        /\ pc = "return" =>
            /\ z_grid = Reshape(X, N)
            /\ ToVector(z_grid, N) = X
            /\ Reshape(ToVector(z_grid, N), N) = z_grid

\* plot_solution has reshaped a vector of 4 entries whose second and third
\* entries differ, so that a transposed field would not map back to it.
C16_Witness ==
    /\ PlotEnded /\ pc = "return" /\ N = 2
    /\ X[1] # X[2]
    /\ z_grid[0][1] = X[1] /\ z_grid[1][0] = X[2]
    /\ ToVector(z_grid, N) = X

\* sparse_matrix_builder has returned the sparse encoding and its B.
SparseAssembled == pc \in {"sparse_eliminate", "sparse_back", "sparse_done"}

\* C17: the two encodings of A, the dense array of matrix_builder and the
\* sparse encoding that stores at most 5 entries per row, all nonzero,
\* stand for the identical matrix for every N >= 2 and L > 0 (and the g of
\* matrix_builder), and the two right-hand sides are equal.
C17_EncodingsAgree ==
    SparseAssembled =>
        /\ N >= 2 /\ L > 0
        /\ DOMAIN A_sp = DOMAIN A
        /\ Materialize(A_sp, N * N) = A
        /\ \A r \in DOMAIN A_sp :
            /\ Cardinality(DOMAIN A_sp[r]) <= 5
            /\ DOMAIN A_sp[r] = {c \in DOMAIN A[r] : A[r][c] # 0}
        /\ B_sp = B

\* Both encodings of the 4 x 4 grid are assembled: interior row 5 stores its
\* five stencil entries, boundary row 0 its diagonal.
C17_Witness ==
    /\ pc = "sparse_eliminate" /\ k = 0 /\ N = 4
    /\ DOMAIN A_sp[5] = {1, 4, 5, 6, 9}
    /\ DOMAIN A_sp[0] = {0}
    /\ Materialize(A_sp, N * N) = A

C19_StorageScaling ==
    /\ A # NoMatrix => Stored(A) = N * N * N * N
    /\ A_sp # NoMatrix =>
        /\ Stored(A_sp) <= 5 * N * N
        /\ Stored(A_sp) < Stored(A)
    /\ SparseAssembled =>
        /\ Stored(A_sp) = 4 * (N - 2) * (N - 2) + N * N
        /\ Stored(A_sp) = SumOver([r \in DOMAIN A |-> RowNonzeros(r)], DOMAIN A)
        /\ Stored(lu) < N * N * N * N

\* The 4 x 4 grid in both encodings: 256 scalars against 32.
C19_Witness ==
    /\ SparseAssembled /\ N = 4
    /\ Stored(A) = 256
    /\ Stored(A_sp) = 32

\* C20: matrix_builder is a pure, deterministic function of N and L (its
\* boundary function is fixed). A call starts from freshly allocated zero
\* arrays, whatever calls were made before, and whenever it returns for the
\* N and L of an earlier call whose result the caller still holds, with any
\* calls in between, its A and B equal the ones returned then.
C20_Deterministic ==
    /\ (pc = "matrix_builder" /\ i = 0 /\ j = 0) =>
            (A = ZerosMatrix(N) /\ B = ZerosVector(N))
    /\ (Assembled /\ earlier.kept /\ earlier.N = N /\ earlier.L = L) =>
            (A = earlier.A /\ B = earlier.B)

\* matrix_builder(3, 1) has returned for the second time, after a call with
\* another L whose exception or result was dropped: A and B are those the
\* caller kept from the first time.
C20_Witness ==
    /\ Assembled /\ N = 3 /\ L = 1
    /\ earlier.kept /\ earlier.N = 3 /\ earlier.L = 1
    /\ A = earlier.A /\ B = earlier.B
    /\ B[4] = Zero /\ B[1] # Zero

\* matrix_solver is running: lu_factor or lu_solve is at work.
InSolver ==
    pc \in {"matrix_solver", "getrf_pivot", "getrf_eliminate", "getrs_permute",
            "getrs_forward", "getrs_back"}

\* C21: solve leaves its inputs unchanged and X is not modified afterwards.
\* No step of matrix_solver changes A or B (lu_factor and lu_solve work on
\* copies), so when X is returned A and B hold the values they had at the
\* call; every call starts its factorisation from A alone; and once X is
\* returned, no later step of the call (the reshape for display, the
\* return) changes it.
C21_InputsUnchanged ==
    [][/\ InSolver => (A' = A /\ B' = B)
       /\ (pc = "matrix_solver") =>
            /\ lu' = [r \in DOMAIN A |-> [c \in DOMAIN A |-> FromInt(A[r][c])]]
            /\ piv' = [r \in DOMAIN A |-> r]
       /\ (pc = "getrf_eliminate" /\ pc' = "getrs_permute") => rhs' = B
       /\ (pc \in {"plot", "return"} /\ pc' # "matrix_builder") => X' = X]_vars

\* The 4 x 4 system is solved: the factors and the solved right-hand side
\* differ from A and B, which are as matrix_builder returned them.
C21_Witness ==
    /\ Solved /\ N = 4 /\ L > 0
    /\ lu[6][5] # FromInt(A[6][5])
    /\ rhs # B
    /\ A[6][5] = 1 /\ B[5] = Zero
    /\ X = rhs

\* The order of the steps of one naive_solver call, as the state shows it:
\* while matrix_builder runs nothing is factored, solved or reshaped; the
\* solve runs on the A and B of the finished loops (the last grid point
\* visited, every row of A written) and has no X yet; a reshaped field is
\* the reshape of the X the solve returned.
StepOrder ==
    /\ (pc = "matrix_builder") =>
            (lu = NoMatrix /\ rhs = NoMatrix /\ X = NoMatrix /\ z_grid = NoMatrix)
    /\ (InSolver \/ pc \in {"plot", "return", "done"}) =>
            /\ i = N - 1 /\ j = N - 1
            /\ \A r \in 0..(N * N - 1) : A[r][r] # 0
    /\ InSolver => (X = NoMatrix /\ z_grid = NoMatrix)
    /\ (z_grid # NoMatrix) =>
            /\ pc \in {"return", "done"}
            /\ X # NoMatrix
            /\ z_grid = Reshape(X, N)

\* C22 as stated: assemble, then solve, then reshape, and every call that
\* assembles and solves has reshaped X by the time it returns.
C22_AlwaysReshapes ==
    /\ StepOrder
    /\ (pc = "done") => (z_grid # NoMatrix)

\* C22 as amended: the steps happen in the order assemble, solve, reshape;
\* X is reshaped only inside plot_solution, so a call with plot on and
\* N >= 2 that has assembled and solved reaches the reshape, and a call with
\* plot off (the default) returns without ever reshaping X.
C22_OrderAndOptionalReshape ==
    /\ [](StepOrder /\ ((pc = "done") => ((z_grid # NoMatrix) <=> plot)))
    /\ ((Solved /\ plot /\ N >= 2) ~> (pc = "return" /\ z_grid = Reshape(X, N)))

\* A call with plot on has assembled, solved and reshaped a 3 x 3 field.
C22_Witness ==
    /\ pc = "return" /\ plot /\ N = 3 /\ L > 0
    /\ X # NoMatrix
    /\ z_grid = Reshape(X, N)
    /\ z_grid[1][1] = X[4]

\* C23: for N >= 2 and L > 0 the grid has N*N points, x_grid[i, j] is
\* -L/2 + i*h and y_grid[i, j] is -L/2 + j*h with the one spacing
\* h = L/(N - 1) that plot_solution uses, neighbouring grid lines are h
\* apart on both axes, the first and last coordinate of each axis are -L/2
\* and +L/2, and every frame point lies on the boundary of the domain.
C23_GridCoordinates ==
    (pc # "idle" /\ N >= 2 /\ L > 0) =>
        /\ Cardinality(Grid) = N * N
        /\ \A p \in Grid :
            LET x == x_grid(N, L, p[1], p[2])
                y == y_grid(N, L, p[1], p[2])
            IN  /\ x = RAdd(Rat(-L, 2), RMul(FromInt(p[1]), h(N, L)))
                /\ y = RAdd(Rat(-L, 2), RMul(FromInt(p[2]), h(N, L)))
                /\ (p[1] = 0) => (x = Rat(-L, 2))
                /\ (p[1] = N - 1) => (x = Rat(L, 2))
                /\ (p[2] = 0) => (y = Rat(-L, 2))
                /\ (p[2] = N - 1) => (y = Rat(L, 2))
                /\ (p[1] + 1 < N) =>
                        RSub(x_grid(N, L, p[1] + 1, p[2]), x) = h(N, L)
                /\ (p[2] + 1 < N) =>
                        RSub(y_grid(N, L, p[1], p[2] + 1), y) = h(N, L)
                /\ ~Interior(p[1], p[2]) =>
                        (RAbs(x) = Rat(L, 2) \/ RAbs(y) = Rat(L, 2))

\* The loops are at point (3, 1) of the 4 x 4 grid on [-1, 1]^2: x = 1, the
\* last coordinate, and y = -1/3.
C23_Witness ==
    /\ pc = "matrix_builder" /\ N = 4 /\ L = 2 /\ i = 3 /\ j = 1
    /\ x_grid(N, L, i, j) = <<1, 1>>
    /\ y_grid(N, L, i, j) = <<-1, 3>>
    /\ h(N, L) = <<2, 3>>

\* C24: row construction is order-independent. The loop body at grid point
\* (i, j) changes row i*N + j of A and entry i*N + j of B and nothing else
\* of them, in the nested loops and in any other order; and when the loop
\* body has been run once for every grid point, in whatever order, A and B
\* are the ones the nested loops returned.
C24_OrderIndependent ==
    /\ [](pc = "any_order_done" => (A = earlier.A /\ B = earlier.B))
    /\ [][/\ (pc = "matrix_builder") =>
                \A r \in 0..(N * N - 1) :
                    (r # Flat(N, i, j)) => (A'[r] = A[r] /\ B'[r] = B[r])
          /\ (pc = "any_order") =>
                \A p \in todo' :
                    /\ A'[Flat(N, p[1], p[2])] = A[Flat(N, p[1], p[2])]
                    /\ B'[Flat(N, p[1], p[2])] = B[Flat(N, p[1], p[2])]
          /\ (pc = "any_order") =>
                \A p \in Grid \ todo :
                    /\ A'[Flat(N, p[1], p[2])] = A[Flat(N, p[1], p[2])]
                    /\ B'[Flat(N, p[1], p[2])] = B[Flat(N, p[1], p[2])]]_vars

\* On the 3 x 3 grid every point but (0, 0), the first point of the nested
\* loops, has been done: rows 1 to 8 are those the nested loops returned,
\* row 0 is still to be written.
C24_Witness ==
    /\ pc = "any_order" /\ N = 3 /\ L > 0
    /\ todo = {<<0, 0>>}
    /\ earlier.kept
    /\ \A r \in 1..8 : A[r] = earlier.A[r] /\ B[r] = earlier.B[r]
    /\ A[4][4] = -4 /\ A[0][0] = 0 /\ earlier.A[0][0] = 1

\* C25: the degenerate grid N = 2 (L # 0). The call does not fail; no grid
\* point passes the interior test; the assembled A is the 4 x 4 identity
\* matrix; B holds g at the four corner points (+-L/2, +-L/2), which is -1
\* at each of them; and the solved X equals B.
C25_DegenerateGrid ==
    (N = 2 /\ L # 0 /\ pc # "idle") =>
        /\ pc # "raised"
        /\ \A p \in Grid : ~Inside(N, L, p[1], p[2])
        /\ (InSolver \/ pc \in {"plot", "return", "done"}) =>
            /\ A = [r \in 0..3 |-> [c \in 0..3 |-> IF r = c THEN 1 ELSE 0]]
            /\ B[0] = g(L, Rat(-L, 2), Rat(-L, 2))
            /\ B[1] = g(L, Rat(-L, 2), Rat(L, 2))
            /\ B[2] = g(L, Rat(L, 2), Rat(-L, 2))
            /\ B[3] = g(L, Rat(L, 2), Rat(L, 2))
            /\ B = [r \in 0..3 |-> <<-1, 1>>]
        /\ (pc \in {"plot", "return", "done"}) => (X = B)

\* The 2 x 2 grid is assembled and solved: A is the identity and X is B.
C25_Witness ==
    /\ Solved /\ N = 2 /\ L > 0
    /\ A[3][3] = 1 /\ A[3][2] = 0
    /\ X = B /\ X[3] = <<-1, 1>>

\* The columns of row r of A that hold a nonzero.
NonzeroColumns(r) == {c \in DOMAIN A[r] : A[r][c] # 0}

\* C26: the interior branch writes in range and to the true neighbours. No
\* call ends in an IndexError. Whenever the loop body is about to take the
\* interior branch at (i, j), the four neighbours (i-1, j), (i+1, j),
\* (i, j-1), (i, j+1) are grid points, and the columns the branch writes are
\* k = i*N + j and (i-1)*N + j, (i+1)*N + j, i*N + j + 1, i*N + j - 1, all
\* in 0..N*N-1 (none negative, none wrapped), the last two in grid row i.
\* Every row the interior branch has written holds its nonzeros in row
\* i*N + j, at the flat indices of (i, j) and of its four neighbours.
C26_StencilInRange ==
    /\ exc # "IndexError"
    /\ (pc = "matrix_builder" /\ Inside(N, L, i, j)) =>
        LET cols == StencilColumns(N, i, j) IN
        /\ {<<i - 1, j>>, <<i + 1, j>>, <<i, j - 1>>, <<i, j + 1>>} \subseteq Grid
        /\ cols = <<i * N + j, (i - 1) * N + j, (i + 1) * N + j,
                    i * N + j + 1, i * N + j - 1>>
        /\ \A t \in 1..5 :
            /\ cols[t] \in 0..(N * N - 1)
            /\ PyIndex(cols[t], N * N) = cols[t]
        /\ cols[4] \div N = i /\ cols[4] % N = j + 1
        /\ cols[5] \div N = i /\ cols[5] % N = j - 1
        /\ cols[2] \div N = i - 1 /\ cols[2] % N = j
        /\ cols[3] \div N = i + 1 /\ cols[3] % N = j
    /\ (pc \in {"matrix_builder", "matrix_solver"} /\ A # NoMatrix) =>
        \A p \in Grid :
            (/\ Inside(N, L, p[1], p[2])
             /\ (pc = "matrix_solver" \/ p[1] * N + p[2] < i * N + j)) =>
                NonzeroColumns(p[1] * N + p[2]) =
                    {p[1] * N + p[2], (p[1] - 1) * N + p[2], (p[1] + 1) * N + p[2],
                     p[1] * N + (p[2] - 1), p[1] * N + (p[2] + 1)}

\* On the 4 x 4 grid the loops stand at the interior point (2, 1), about to
\* write columns 9, 5, 13, 10, 8; row 5 of the interior point (1, 1) is
\* written, with its ones in columns 1, 9, 4, 6.
C26_Witness ==
    /\ pc = "matrix_builder" /\ N = 4 /\ L > 0 /\ i = 2 /\ j = 1
    /\ Inside(N, L, i, j)
    /\ StencilColumns(N, i, j) = <<9, 5, 13, 10, 8>>
    /\ NonzeroColumns(5) = {5, 1, 9, 4, 6}

\* lu_factor has finished: lu holds the unit lower factor below the
\* diagonal and the upper factor, with the pivots, on and above it.
Factored ==
    /\ lu # NoMatrix
    /\ pc \in {"getrs_permute", "getrs_forward", "getrs_back", "plot", "return", "done"}

\* C27: the assembled system has at most one solution, for every N >= 1
\* (and L # 0, without which nothing is assembled). The factorisation
\* P A = L U of the assembled A has no zero pivot, so A is not singular and
\* two fields with the same A x = B are equal; the X returned is finite and
\* satisfies every row equation, and no field that differs from X at one
\* grid point does.
C27_AtMostOneSolution ==
    /\ (L # 0 /\ N >= 1 /\ Factored) =>
            /\ Size(lu) = N * N
            /\ \A r \in 0..(N * N - 1) : lu[r][r] # Zero /\ lu[r][r] # NonFinite
    /\ (L # 0 /\ N >= 1 /\ Solved) =>
            /\ \A r \in 0..(N * N - 1) : X[r] # NonFinite /\ RowTimes(r, X) = B[r]
            /\ \A c \in 0..(N * N - 1) :
                LET other == [X EXCEPT ![c] = RAdd(X[c], FromInt(1))]
                IN  \E r \in 0..(N * N - 1) : RowTimes(r, other) # B[r]

\* The 3 x 3 system is factored and solved: no pivot is zero, the pivot of
\* the interior row is -4, and X satisfies the interior row equation.
C27_Witness ==
    /\ Solved /\ N = 3 /\ L > 0
    /\ lu[4][4] = FromInt(-4)
    /\ \A r \in 0..8 : lu[r][r] # Zero
    /\ RowTimes(4, X) = B[4]

\* The grid points whose row the boundary branch wrote.
BoundaryPoints == {p \in Grid : ~Inside(N, L, p[1], p[2])}

\* C28: the discrete maximum principle. In the solved field (the one field
\* that satisfies all row equations), for the boundary data g and for
\* boundary data changed at a boundary point, the value at every interior
\* point is at least the least and at most the greatest of the boundary
\* values B[k] of the boundary rows.
C28_MaximumPrinciple ==
    (Solved /\ L # 0) =>
        /\ \A r \in 0..(N * N - 1) : RowTimes(r, X) = B[r]
        /\ \A p \in Grid \ BoundaryPoints :
            /\ \E q \in BoundaryPoints :
                /\ \A s \in BoundaryPoints :
                    ~RLess(B[s[1] * N + s[2]], B[q[1] * N + q[2]])
                /\ ~RLess(X[p[1] * N + p[2]], B[q[1] * N + q[2]])
            /\ \E q \in BoundaryPoints :
                /\ \A s \in BoundaryPoints :
                    ~RLess(B[q[1] * N + q[2]], B[s[1] * N + s[2]])
                /\ ~RLess(B[q[1] * N + q[2]], X[p[1] * N + p[2]])

\* The 4 x 4 system is solved again with the boundary value of point (0, 1)
\* raised from 1/2 to 3/2: the boundary values run from -1 to 3/2 and the
\* value at the interior point (1, 1) has moved off 1/2, to strictly
\* between 1/2 and 3/2.
C28_Witness ==
    /\ Solved /\ N = 4 /\ L > 0
    /\ earlier.kept /\ earlier.X[5] = <<1, 2>>
    /\ B[1] = <<3, 2>> /\ B[0] = <<-1, 1>>
    /\ RLess(<<1, 2>>, X[5]) /\ RLess(X[5], <<3, 2>>)

\* The flat indices of the four corner points (0, 0), (0, N-1), (N-1, 0),
\* (N-1, N-1).
Corners == {0, N - 1, (N - 1) * N, N * N - 1}

\* C29: the corner unknowns are decoupled from the rest. In the assembled A
\* the column of every corner point has the diagonal entry, 1, as its only
\* nonzero; and when the system is solved again with B changed at a corner
\* only, the solved field changes at that corner, by as much as B did, and
\* nowhere else.
C29_CornersDecoupled ==
    /\ (L # 0 /\ N >= 1 /\ (InSolver \/ Solved)) =>
        \A c \in Corners :
            \A r \in 0..(N * N - 1) : A[r][c] = (IF r = c THEN 1 ELSE 0)
    /\ (L # 0 /\ Solved /\ earlier.kept) =>
        \A c \in Corners :
            (\A r \in 0..(N * N - 1) : r # c => B[r] = earlier.B[r]) =>
                /\ \A r \in 0..(N * N - 1) : r # c => X[r] = earlier.X[r]
                /\ RSub(X[c], earlier.X[c]) = RSub(B[c], earlier.B[c])

\* The 4 x 4 system is solved again with g changed at the corner (0, 0):
\* the field has changed at that corner and is the same at the 15 others.
C29_Witness ==
    /\ Solved /\ N = 4 /\ L > 0 /\ earlier.kept
    /\ B[0] # earlier.B[0]
    /\ X[0] # earlier.X[0]
    /\ \A r \in 1..15 : X[r] = earlier.X[r] /\ B[r] = earlier.B[r]
    /\ X[5] # Zero

====
